---------------------------- MODULE Spec2Model ----------------------------
(***************************************************************************)
(* A model of the two game bots of mofid_anniversary31:                    *)
(*   - rocket_bot.py : RocketBot (steering mode): the planner              *)
(*     calculate_safe_move with its nested is_safe, the actuator           *)
(*     move_rocket, the listener callback on_press and the loop run();     *)
(*   - shooter_bot.py: click mode: on_press, click_box and run_bot.        *)
(* One behaviour is one of: a steering run (mode = "steer"), a click run   *)
(* (mode = "click"), or one call of a planner function (mode = "plan").    *)
(*                                                                         *)
(* Conventions.  Python's None is the empty tuple << >>, a point is        *)
(* <<x, y>>; "not v" of the code is v = << >>.  Distances: the code        *)
(* compares np.sqrt(n) for an integer n with a bound that is a multiple    *)
(* of 0.5, or with another such square root; for the coordinates of a      *)
(* frame these comparisons are decided exactly by the squares, which is    *)
(* how they are written here.  The danger scores of the horizontal scan    *)
(* add square roots; they are carried in fixed point, Scale units per px.  *)
(***************************************************************************)
EXTENDS Integers, Sequences, FiniteSets, TLC

\* ------------------------------------------------------------ bounds ----
MaxItems == 2          \* collectibles of one planner call
MaxFireballs == 2      \* hazards of one planner call
MaxBoxes == 2          \* target boxes detected in one frame
MaxTime == 4           \* the clock stops advancing here (ticks)
MaxDelay == 2          \* click_delay is drawn from 0..MaxDelay (ticks)
Scale == 16            \* fixed-point units per pixel of a danger score

None == << >>

Max(a, b) == IF a >= b THEN a ELSE b

Range(s) == {s[i] : i \in 1..Len(s)}

\* Sequences without repetition over S, of length at most n.
RECURSIVE SeqsUpTo(_, _)
SeqsUpTo(S, n) ==
    IF n = 0 THEN {<< >>}
    ELSE LET shorter == SeqsUpTo(S, n - 1)
             longest == {t \in shorter : Len(t) = n - 1}
         IN  shorter \cup {Append(p[1], p[2]) :
                              p \in {q \in longest \X S : q[2] \notin Range(q[1])}}

\* floor(sqrt(n)) for n >= 0, by bisection on [lo, hi].
RECURSIVE ISqrtIn(_, _, _)
ISqrtIn(n, lo, hi) ==
    IF lo >= hi THEN lo
    ELSE LET mid == (lo + hi + 1) \div 2
         IN  IF mid * mid <= n THEN ISqrtIn(n, mid, hi) ELSE ISqrtIn(n, lo, mid - 1)

ISqrt(n) == ISqrtIn(n, 0, 46340)

\* ------------------------------------------- rocket_bot.py: planner ----
\* find_fireballs: the record built from a contour's bounding rectangle.
Fireball(x, y, w, h) ==
    [center |-> <<x + w \div 2, y + h \div 2>>,
     bounds |-> <<x, y, w, h>>,
     danger_radius |-> Max(w, h)]

\* find_items: the (cx, cy, area) triple built from a bounding rectangle.
Item(x, y, w, h, area) == <<x + w \div 2, y + h \div 2, area>>

\* radius = fb['danger_radius'] * 1.5, kept doubled (an integer): 2 * radius.
Radius2(fb) == fb.danger_radius * 3

\* danger_zones: (fcx, fcy, radius) per fireball, the radius doubled.
DangerZones(fireballs) ==
    [i \in 1..Len(fireballs) |->
        <<fireballs[i].center[1], fireballs[i].center[2], Radius2(fireballs[i])>>]

Dist2(x1, y1, x2, y2) == (x1 - x2) * (x1 - x2) + (y1 - y2) * (y1 - y2)

\* InsideZone with the comparison made inclusive (dist <= radius).
InsideZone_Inclusive(x, y, z) == 4 * Dist2(x, y, z[1], z[2]) <= z[3] * z[3]

\* dist < radius, with dist = sqrt(d2) and radius = r2 / 2.
InsideZone(x, y, z) == 4 * Dist2(x, y, z[1], z[2]) < z[3] * z[3]

\* is_safe: the loop over danger_zones from index i on, False at the first hit.
RECURSIVE IsSafeFrom(_, _, _, _)
IsSafeFrom(x, y, zones, i) ==
    IF i > Len(zones) THEN TRUE
    ELSE IF InsideZone(x, y, zones[i]) THEN FALSE
    ELSE IsSafeFrom(x, y, zones, i + 1)

is_safe(x, y, zones) == IsSafeFrom(x, y, zones, 1)

\* The k-th of np.linspace(0, 1, 5): t = k/4; int(a + t * (b - a)) truncates,
\* and a + t * (b - a) lies between the two coordinates, which are >= 0.
SampleCoord(a, b, k) == (4 * a + k * (b - a)) \div 4

NumSamples == 5

\* The inner loop over t: samples k, k+1, ... until one is unsafe (break).
RECURSIVE PathSafeFrom(_, _, _, _, _, _)
PathSafeFrom(rx, ry, ix, iy, zones, k) ==
    IF k > NumSamples - 1 THEN TRUE
    ELSE IF ~is_safe(SampleCoord(rx, ix, k), SampleCoord(ry, iy, k), zones) THEN FALSE
    ELSE PathSafeFrom(rx, ry, ix, iy, zones, k + 1)

\* path_safe with the end point alone checked.
path_safe_EndOnly(rx, ry, item, zones) == is_safe(item[1], item[2], zones)

path_safe(rx, ry, item, zones) == PathSafeFrom(rx, ry, item[1], item[2], zones, 0)

\* Closer with dist <= best_score: the last of the nearest wins.
Closer_OrEqual(d2, best_score) == best_score = << >> \/ d2 <= best_score[1]

\* dist < best_score, best_score being float('inf') (<< >>) or a distance <<d2>>.
Closer(d2, best_score) == best_score = << >> \/ d2 < best_score[1]

\* The loop over items from index i on; best = [target, score].
RECURSIVE BestItemFrom(_, _, _, _, _, _)
BestItemFrom(rx, ry, items, zones, i, best) ==
    IF i > Len(items) THEN best
    ELSE LET item == items[i]
             d2 == Dist2(item[1], item[2], rx, ry)
             next == IF path_safe(rx, ry, item, zones) /\ Closer(d2, best.score)
                     THEN [target |-> <<item[1], item[2]>>, score |-> <<d2>>]
                     ELSE best
         IN  BestItemFrom(rx, ry, items, zones, i + 1, next)

best_item(rx, ry, items, zones) ==
    BestItemFrom(rx, ry, items, zones, 1, [target |-> None, score |-> << >>]).target

\* One zone's share of danger_score at (test_x, ry), in 1/Scale px:
\* radius * 2 - dist when dist < radius * 2, else nothing.
ZoneDanger(test_x, ry, z) ==
    LET d2 == Dist2(test_x, ry, z[1], z[2])
    IN  IF d2 < z[3] * z[3] THEN z[3] * Scale - ISqrt(d2 * Scale * Scale) ELSE 0

RECURSIVE DangerScoreFrom(_, _, _, _)
DangerScoreFrom(test_x, ry, zones, i) ==
    IF i > Len(zones) THEN 0
    ELSE ZoneDanger(test_x, ry, zones[i]) + DangerScoreFrom(test_x, ry, zones, i + 1)

danger_score(test_x, ry, zones) == DangerScoreFrom(test_x, ry, zones, 1)

ScanStart == 50
ScanMargin == 50
ScanStep == 20

\* The scan's comparison made inclusive: the last of the least wins.
LessDanger_OrEqual(score, min_danger) == min_danger = << >> \/ score <= min_danger[1]

\* danger_score < min_danger, min_danger being float('inf') (<< >>) or <<score>>.
LessDanger(score, min_danger) == min_danger = << >> \/ score < min_danger[1]

\* for test_x in range(50, frame_width - 50, 20), from test_x on;
\* acc = [safe_x, min_danger].
RECURSIVE ScanFrom(_, _, _, _, _)
ScanFrom(test_x, ry, zones, frame_width, acc) ==
    IF test_x >= frame_width - ScanMargin THEN acc
    ELSE LET score == danger_score(test_x, ry, zones)
             next == IF LessDanger(score, acc.min_danger)
                     THEN [safe_x |-> test_x, min_danger |-> <<score>>]
                     ELSE acc
         IN  ScanFrom(test_x + ScanStep, ry, zones, frame_width, next)

safest_x(rx, ry, zones, frame_width) ==
    ScanFrom(ScanStart, ry, zones, frame_width,
             [safe_x |-> rx, min_danger |-> << >>]).safe_x

\* calculate_safe_move without its fallback: best_target as the loop left it.
calculate_safe_move_NoFallback(rocket_pos, items, fireballs, frame_width) ==
    IF rocket_pos = None THEN [target |-> None, from |-> "none"]
    ELSE [target |-> best_item(rocket_pos[1], rocket_pos[2], items,
                               DangerZones(fireballs)),
          from |-> "item"]

\* calculate_safe_move, with the branch that produced the target:
\* "none" (no rocket_pos), "item" (the loop over items), "scan" (the fallback).
calculate_safe_move(rocket_pos, items, fireballs, frame_width) ==
    IF rocket_pos = None THEN [target |-> None, from |-> "none"]
    ELSE LET rx == rocket_pos[1]
             ry == rocket_pos[2]
             zones == DangerZones(fireballs)
             best_target == best_item(rx, ry, items, zones)
         IN  IF best_target = None
             THEN [target |-> <<safest_x(rx, ry, zones, frame_width), ry>>,
                   from |-> "scan"]
             ELSE [target |-> best_target, from |-> "item"]

\* ------------------------------------------------------------ state ----
VARIABLES
    mode,            \* "steer" | "click" | "plan": what this behaviour runs
    pc,              \* the main thread's position
    exc,             \* the exception the main thread ended with ("" if none)
    debug,           \* the debug parameter of run / run_bot
    \* RocketBot's fields
    game_region, rocket_pos, running, mouse_pressed, emergency_stop,
    \* run()'s locals: rocket_pos, target (and whether target is bound yet);
    \* detected: what the current frame showed of the rocket (None: nothing)
    l_rocket_pos, target, target_bound, detected,
    \* the keyboard listener: started, position inside on_press
    listener, lpc,
    \* the pointer device and the debug windows
    button, mouse, windows,
    \* run_bot's parameters and locals, the clock, the log of dispatches
    region, click_delay, now, last_click_time, current_time, red_boxes, box,
    click_x, click_y, clicks,
    \* one call of a planner function and what it returned
    call, ret

botVars == <<game_region, rocket_pos, running, mouse_pressed>>
localVars == <<l_rocket_pos, target, target_bound, detected>>
listenerVars == <<listener, lpc>>
deviceVars == <<button, mouse, windows>>
clickVars == <<region, click_delay, last_click_time, current_time, red_boxes, box,
               click_x, click_y, clicks>>
planVars == <<call, ret>>
vars == <<mode, pc, exc, debug, botVars, emergency_stop, localVars, listenerVars,
          deviceVars, clickVars, now, planVars>>

\* ----------------------------------------------------------- inputs ----
\* What one planner call may be given: the scenes of the spec's end-to-end
\* scenarios (agent (100,100), collectible (150,100), hazard (125,100) with
\* danger_radius 40) and their neighbours.
PlanRocketPositions == {None, <<100, 100>>, <<60, 100>>}

PlanItems ==
    {Item(125, 75, 50, 50, 2500),     \* centre (150, 100)
     Item(25, 75, 50, 50, 2500),      \* centre (50, 100)
     Item(105, 115, 50, 50, 2500),    \* centre (130, 140)
     Item(165, 75, 50, 50, 2500)}     \* centre (190, 100)

PlanFireballs ==
    {Fireball(105, 80, 40, 40),       \* centre (125, 100), radius 60
     Fireball(170, 90, 20, 20),       \* centre (180, 100), radius 30
     Fireball(120, 130, 20, 16)}      \* centre (130, 138), radius 30

PlanWidths == {100, 300}

PlanPoints ==
    {<<125, 100>>, <<65, 100>>, <<66, 100>>, <<89, 52>>, <<90, 52>>,
     <<150, 100>>, <<151, 100>>, <<130, 168>>, <<0, 0>>}

NoCall == [fn |-> "", rocket_pos |-> None, items |-> << >>, fireballs |-> << >>,
           frame_width |-> 0, point |-> None]

MoveCalls ==
    {[NoCall EXCEPT !.fn = "calculate_safe_move", !.rocket_pos = r, !.items = i,
                    !.fireballs = f, !.frame_width = w] :
        r \in PlanRocketPositions, i \in SeqsUpTo(PlanItems, MaxItems),
        f \in SeqsUpTo(PlanFireballs, MaxFireballs), w \in PlanWidths}

SafeCalls ==
    {[NoCall EXCEPT !.fn = "is_safe", !.point = p, !.fireballs = f] :
        p \in PlanPoints, f \in SeqsUpTo(PlanFireballs, MaxFireballs)}

NoRet == [target |-> None, from |-> "", safe |-> FALSE]

\* The frames of a steering run: what find_rocket, find_items and
\* find_fireballs detect in one capture (rocket: the qualifying contour's
\* centroid, or None when no contour qualifies).
Scenes ==
    {[rocket |-> None, items |-> << >>, fireballs |-> << >>],
     [rocket |-> <<100, 100>>, items |-> <<Item(125, 75, 50, 50, 2500)>>,
      fireballs |-> << >>],
     [rocket |-> <<60, 100>>, items |-> <<Item(125, 75, 50, 50, 2500)>>,
      fireballs |-> <<Fireball(105, 80, 40, 40)>>]}

GameRegions == {None, [left |-> 10, top |-> 20, width |-> 300, height |-> 540]}

\* The keys a listener may see.
Keys == {"esc", "f12", "a"}

\* ------------------------------------------------------------- Init ----
InitCommon ==
    /\ exc = ""
    /\ button = "up" /\ mouse = None
    /\ lpc = "idle"
    /\ emergency_stop = FALSE

InitBot ==
    /\ rocket_pos = None /\ running = FALSE /\ mouse_pressed = FALSE
    /\ l_rocket_pos = None /\ target = None /\ target_bound = FALSE
    /\ detected = None

InitNoClick ==
    /\ region = None /\ click_delay = 0 /\ now = 0 /\ last_click_time = 0
    /\ current_time = 0 /\ red_boxes = << >> /\ box = None
    /\ click_x = 0 /\ click_y = 0 /\ clicks = << >>

InitNoPlan == call = NoCall /\ ret = NoRet

\* RocketBot.__init__, then set_game_region or not, then run(debug).
InitSteer ==
    /\ mode = "steer" /\ pc = "idle"
    /\ InitCommon /\ InitBot /\ InitNoClick /\ InitNoPlan
    /\ game_region \in GameRegions
    /\ debug \in BOOLEAN
    /\ listener = FALSE /\ windows = FALSE

\* A call of calculate_safe_move or of its is_safe.
InitPlan ==
    /\ mode = "plan" /\ pc = "call"
    /\ InitCommon /\ InitBot /\ InitNoClick
    /\ game_region = None /\ debug = FALSE
    /\ listener = FALSE /\ windows = FALSE
    /\ call \in MoveCalls \cup SafeCalls
    /\ ret = NoRet

\* ---------------------------------------------------- planner calls ----
CallCalculateSafeMove ==
    /\ mode = "plan" /\ pc = "call" /\ call.fn = "calculate_safe_move"
    /\ LET r == calculate_safe_move(call.rocket_pos, call.items, call.fireballs,
                                    call.frame_width)
       IN  ret' = [NoRet EXCEPT !.target = r.target, !.from = r.from]
    /\ pc' = "returned"
    /\ UNCHANGED <<mode, exc, debug, botVars, emergency_stop, localVars,
                   listenerVars, deviceVars, clickVars, now, call>>

CallIsSafe ==
    /\ mode = "plan" /\ pc = "call" /\ call.fn = "is_safe"
    /\ ret' = [NoRet EXCEPT !.from = "is_safe",
                 !.safe = is_safe(call.point[1], call.point[2],
                                  DangerZones(call.fireballs))]
    /\ pc' = "returned"
    /\ UNCHANGED <<mode, exc, debug, botVars, emergency_stop, localVars,
                   listenerVars, deviceVars, clickVars, now, call>>

\* ------------------------------------------- rocket_bot.py: the run ----
\* find_rocket that forgets: the frame's detection, or None, is the position.
find_rocket_Forgetful(found, last_known) == found

\* find_rocket: a qualifying contour overwrites self.rocket_pos and is
\* returned; otherwise the last known position is returned.
find_rocket(found, last_known) == IF found # None THEN found ELSE last_known

\* The statements of run() inside try, where a KeyboardInterrupt lands in
\* "except KeyboardInterrupt" and any exception passes through "finally".
SteerTry == {"while_running", "while_estop", "capture", "move_rocket",
             "mouse_down", "set_pressed", "drag", "debug"}

\* run(): self.start_keyboard_listener()
Run_StartListener ==
    /\ mode = "steer" /\ pc = "idle"
    /\ listener' = TRUE
    /\ pc' = "set_running"
    /\ UNCHANGED <<mode, exc, debug, botVars, emergency_stop, localVars, lpc,
                   deviceVars, clickVars, now, planVars>>

\* run(): self.running = True
Run_SetRunning ==
    /\ mode = "steer" /\ pc = "set_running"
    /\ running' = TRUE
    /\ pc' = "while_running"
    /\ UNCHANGED <<mode, exc, debug, game_region, rocket_pos, mouse_pressed,
                   emergency_stop, localVars, listenerVars, deviceVars, clickVars, now, planVars>>

\* while self.running and not self.emergency_stop: the read of self.running
Run_WhileRunning ==
    /\ mode = "steer" /\ pc = "while_running"
    /\ pc' = IF running THEN "while_estop" ELSE "finally"
    /\ UNCHANGED <<mode, exc, debug, botVars, emergency_stop, localVars,
                   listenerVars, deviceVars, clickVars, now, planVars>>

\* The loop's condition without the flag.
LoopGoesOn_FlagIgnored(estop) == TRUE

\* The loop goes on when the flag it reads is clear.
LoopGoesOn(estop) == ~estop

\* ... and the read of self.emergency_stop; an iteration begins at "capture".
Run_WhileEstop ==
    /\ mode = "steer" /\ pc = "while_estop"
    /\ pc' = IF LoopGoesOn(emergency_stop) THEN "capture" ELSE "finally"
    /\ UNCHANGED <<mode, exc, debug, botVars, emergency_stop, localVars,
                   listenerVars, deviceVars, clickVars, now, planVars>>

\* capture_game returns None (no game_region): sleep and continue.
Run_CaptureNone ==
    /\ mode = "steer" /\ pc = "capture"
    /\ game_region = None
    /\ pc' = "while_running"
    /\ UNCHANGED <<mode, exc, debug, botVars, emergency_stop, localVars,
                   listenerVars, deviceVars, clickVars, now, planVars>>

\* capture_game: self.sct.grab(self.game_region) raises; nothing in run()
\* catches it, finally runs and the exception leaves run().
Run_CaptureRaises ==
    /\ mode = "steer" /\ pc = "capture"
    /\ game_region # None
    /\ exc' = "ScreenShotError"
    /\ pc' = "finally"
    /\ UNCHANGED <<mode, debug, botVars, emergency_stop, localVars, listenerVars,
                   deviceVars, clickVars, now, planVars>>

\* A frame is captured; find_rocket, find_items, find_fireballs, and, with a
\* rocket position, calculate_safe_move; "if target:" decides on move_rocket.
Run_Perceive ==
    /\ mode = "steer" /\ pc = "capture"
    /\ game_region # None
    /\ \E scene \in Scenes :
         LET pos == find_rocket(scene.rocket, rocket_pos)
             plan == calculate_safe_move(pos, scene.items, scene.fireballs,
                                         game_region.width)
         IN  /\ rocket_pos' = pos
             /\ l_rocket_pos' = pos
             /\ detected' = scene.rocket
             /\ IF pos # None
                THEN /\ target' = plan.target
                     /\ target_bound' = TRUE
                     /\ pc' = IF plan.target # None THEN "move_rocket" ELSE "debug"
                ELSE /\ UNCHANGED <<target, target_bound>>
                     /\ pc' = "debug"
    /\ UNCHANGED <<mode, exc, debug, game_region, running, mouse_pressed,
                   emergency_stop, listenerVars, deviceVars, clickVars, now,
                   planVars>>

\* The in-frame coordinate handed to the device as it is.
ScreenX_InFrame(reg, x) == x

\* Absolute screen coordinates: the region's origin plus the in-frame one.
ScreenX(reg, x) == reg.left + x
ScreenY(reg, y) == reg.top + y

\* move_rocket returns at once without a region or a rocket position; run()
\* calls it only after a capture and with a position, so its two branches
\* carry the negated guard.
\* First time: pyautogui.moveTo(rocket_screen_x, rocket_screen_y), sleep.
Move_ToRocket ==
    /\ mode = "steer" /\ pc = "move_rocket"
    /\ game_region # None /\ l_rocket_pos # None
    /\ ~mouse_pressed
    /\ mouse' = <<ScreenX(game_region, l_rocket_pos[1]),
                  ScreenY(game_region, l_rocket_pos[2])>>
    /\ pc' = "mouse_down"
    /\ UNCHANGED <<mode, exc, debug, botVars, emergency_stop, localVars,
                   listenerVars, button, windows, clickVars, now, planVars>>

\* pyautogui.mouseDown(button='left')
Move_MouseDown ==
    /\ mode = "steer" /\ pc = "mouse_down"
    /\ button' = "down"
    /\ pc' = "set_pressed"
    /\ UNCHANGED <<mode, exc, debug, botVars, emergency_stop, localVars,
                   listenerVars, mouse, windows, clickVars, now, planVars>>

\* The first grab without its return: the drag follows in the same iteration.
Move_SetPressed_FallsThrough ==
    /\ mode = "steer" /\ pc = "set_pressed"
    /\ mouse_pressed' = TRUE
    /\ pc' = "move_rocket"
    /\ UNCHANGED <<mode, exc, debug, game_region, rocket_pos, running,
                   emergency_stop, localVars, listenerVars, deviceVars, clickVars, now, planVars>>

\* self.mouse_pressed = True, sleep, return (no move on the first grab).
Move_SetPressed ==
    /\ mode = "steer" /\ pc = "set_pressed"
    /\ mouse_pressed' = TRUE
    /\ pc' = "debug"
    /\ UNCHANGED <<mode, exc, debug, game_region, rocket_pos, running,
                   emergency_stop, localVars, listenerVars, deviceVars, clickVars, now, planVars>>

\* Already pressed: pyautogui.moveTo(target_screen_x, target_screen_y).
Move_Drag ==
    /\ mode = "steer" /\ pc = "move_rocket"
    /\ game_region # None /\ l_rocket_pos # None
    /\ mouse_pressed
    /\ mouse' = <<ScreenX(game_region, target[1]),
                  ScreenY(game_region, l_rocket_pos[2])>>
    /\ pc' = "debug"
    /\ UNCHANGED <<mode, exc, debug, botVars, emergency_stop, localVars,
                   listenerVars, button, windows, clickVars, now, planVars>>

\* Without debug: time.sleep(FPS_SLEEP) and back to the loop's condition.
Run_NoDebug ==
    /\ mode = "steer" /\ pc = "debug"
    /\ ~debug
    /\ pc' = "while_running"
    /\ UNCHANGED <<mode, exc, debug, botVars, emergency_stop, localVars,
                   listenerVars, deviceVars, clickVars, now, planVars>>

\* With debug, "if target:" reads a local that no iteration has bound yet.
Run_DebugUnbound ==
    /\ mode = "steer" /\ pc = "debug"
    /\ debug /\ ~target_bound
    /\ exc' = "UnboundLocalError"
    /\ pc' = "finally"
    /\ UNCHANGED <<mode, debug, botVars, emergency_stop, localVars, listenerVars,
                   deviceVars, clickVars, now, planVars>>

\* With debug: the window is shown; q or ESC in it breaks out of the loop.
Run_DebugShow ==
    /\ mode = "steer" /\ pc = "debug"
    /\ debug /\ target_bound
    /\ windows' = TRUE
    /\ \E quit \in BOOLEAN : pc' = IF quit THEN "finally" ELSE "while_running"
    /\ UNCHANGED <<mode, exc, debug, botVars, emergency_stop, localVars,
                   listenerVars, button, mouse, clickVars, now, planVars>>

\* finally: running = False, mouseUp if mouse_pressed, destroyAllWindows.
Run_Finally ==
    /\ mode = "steer" /\ pc = "finally"
    /\ running' = FALSE
    /\ button' = IF mouse_pressed THEN "up" ELSE button
    /\ windows' = IF debug THEN FALSE ELSE windows
    /\ pc' = "stopped"
    /\ UNCHANGED <<mode, exc, debug, game_region, rocket_pos, mouse_pressed,
                   emergency_stop, localVars, listenerVars, mouse, clickVars, now, planVars>>

\* A KeyboardInterrupt reaches the main thread inside try, before the
\* statement at pc: except prints, finally follows.
Run_KeyboardInterrupt ==
    /\ mode = "steer" /\ pc \in SteerTry
    /\ exc' = "KeyboardInterrupt"
    /\ pc' = "finally"
    /\ UNCHANGED <<mode, debug, botVars, emergency_stop, localVars, listenerVars,
                   deviceVars, clickVars, now, planVars>>

\* RocketBot.on_press in the listener thread: ESC or F12 sets emergency_stop ...
OnPress_Rocket ==
    /\ mode = "steer" /\ listener /\ lpc = "idle"
    /\ \E key \in Keys :
         IF key \in {"esc", "f12"}
         THEN emergency_stop' = TRUE /\ lpc' = "clear_running"
         ELSE UNCHANGED <<emergency_stop, lpc>>
    /\ UNCHANGED <<mode, pc, exc, debug, botVars, localVars, listener, deviceVars,
                   clickVars, now, planVars>>

\* ... and then self.running = False.
OnPress_RocketRunning ==
    /\ mode = "steer" /\ lpc = "clear_running"
    /\ running' = FALSE
    /\ lpc' = "idle"
    /\ UNCHANGED <<mode, pc, exc, debug, game_region, rocket_pos, mouse_pressed,
                   emergency_stop, localVars, listener, deviceVars, clickVars, now, planVars>>

\* ----------------------------------------- shooter_bot.py: the run ----
\* The boxes find_red_boxes may return, (x, y, w, h): the two of the spec's
\* scenario 3, one sharing (10, 10) as its corner, one on the same row.
Boxes == {<<10, 10, 20, 20>>, <<5, 50, 20, 20>>, <<10, 10, 30, 30>>,
          <<40, 10, 20, 20>>}

ClickRegions == {[left |-> 10, top |-> 20, width |-> 300, height |-> 540]}

\* The key with its components swapped: (box[0], box[1]).
KeyLE_XFirst(a, b) == a[1] < b[1] \/ (a[1] = b[1] /\ a[2] <= b[2])

\* key=lambda box: (box[1], box[0]), compared as Python compares tuples.
KeyLE(a, b) == a[2] < b[2] \/ (a[2] = b[2] /\ a[1] <= b[1])

\* list.sort is stable: e goes behind every element whose key is <= its own.
RECURSIVE InsertSorted(_, _)
InsertSorted(s, e) ==
    IF s = << >> THEN <<e>>
    ELSE IF KeyLE(s[1], e) THEN <<s[1]>> \o InsertSorted(Tail(s), e)
    ELSE <<e>> \o s

RECURSIVE SortBoxes(_)
SortBoxes(s) ==
    IF s = << >> THEN << >>
    ELSE InsertSorted(SortBoxes(SubSeq(s, 1, Len(s) - 1)), s[Len(s)])

\* The cooldown test without the delay.
CooldownOver_NoDelay(t, last, delay) == t - last >= 0

\* (current_time - last_click_time) >= click_delay
CooldownOver(t, last, delay) == t - last >= delay

\* click_x = x + w // 2, click_y = y + h // 2
BoxCenter(b) == <<b[1] + b[3] \div 2, b[2] + b[4] \div 2>>

\* The dispatch log keeps the clock readings of the last two dispatches.
Logged(log, t) == IF Len(log) < 2 THEN Append(log, t) ELSE <<log[2], t>>

ShooterTry == {"c_while", "c_capture", "c_decide", "c_mouse_down", "c_mouse_up",
               "c_stamp", "c_debug"}

\* main() has started the listener; run_bot has printed, slept, opened the
\* debug window if asked, and set last_click_time = 0.
InitClick ==
    /\ mode = "click" /\ pc = "c_while"
    /\ InitCommon /\ InitBot /\ InitNoPlan
    /\ game_region = None
    /\ debug \in BOOLEAN /\ windows = debug
    /\ listener = TRUE
    /\ region \in ClickRegions
    /\ click_delay \in 0..MaxDelay
    /\ now = 0 /\ last_click_time = 0 /\ current_time = 0
    /\ red_boxes = << >> /\ box = None /\ click_x = 0 /\ click_y = 0
    /\ clicks = << >>

\* while not emergency_stop; an iteration begins at "c_capture".
Bot_While ==
    /\ mode = "click" /\ pc = "c_while"
    /\ pc' = IF LoopGoesOn(emergency_stop) THEN "c_capture" ELSE "c_finally"
    /\ UNCHANGED <<mode, exc, debug, botVars, emergency_stop, localVars,
                   listenerVars, deviceVars, clickVars, now, planVars>>

\* sct.grab(region) raises: nothing in the loop catches it.
Bot_CaptureRaises ==
    /\ mode = "click" /\ pc = "c_capture"
    /\ exc' = "ScreenShotError"
    /\ pc' = "c_finally"
    /\ UNCHANGED <<mode, debug, botVars, emergency_stop, localVars, listenerVars,
                   deviceVars, clickVars, now, planVars>>

\* sct.grab(region) and find_red_boxes(frame, debug)
Bot_FindRedBoxes ==
    /\ mode = "click" /\ pc = "c_capture"
    /\ red_boxes' \in SeqsUpTo(Boxes, MaxBoxes)
    /\ pc' = "c_decide"
    /\ UNCHANGED <<mode, exc, debug, botVars, emergency_stop, localVars,
                   listenerVars, deviceVars, region, click_delay,
                   last_click_time, current_time, box, click_x, click_y, clicks,
                   now, planVars>>

\* current_time = time.time(); with boxes and the cooldown over: sort, take
\* the first box and its centre, and go on to click_box.
Bot_Decide ==
    /\ mode = "click" /\ pc = "c_decide"
    /\ current_time' = now
    /\ IF red_boxes # << >> /\ CooldownOver(now, last_click_time, click_delay)
       THEN LET sorted == SortBoxes(red_boxes)
            IN  /\ red_boxes' = sorted
                /\ box' = sorted[1]
                /\ click_x' = BoxCenter(sorted[1])[1]
                /\ click_y' = BoxCenter(sorted[1])[2]
                /\ pc' = "c_mouse_down"
       ELSE /\ UNCHANGED <<red_boxes, box, click_x, click_y>>
            /\ pc' = "c_debug"
    /\ UNCHANGED <<mode, exc, debug, botVars, emergency_stop, localVars,
                   listenerVars, deviceVars, region, click_delay,
                   last_click_time, clicks, now, planVars>>

\* click_box: pyautogui.mouseDown(screen_x, screen_y); the dispatch is logged
\* with the clock reading of its iteration.
Click_MouseDown ==
    /\ mode = "click" /\ pc = "c_mouse_down"
    /\ mouse' = <<ScreenX(region, click_x), ScreenY(region, click_y)>>
    /\ button' = "down"
    /\ clicks' = Logged(clicks, current_time)
    /\ pc' = "c_mouse_up"
    /\ UNCHANGED <<mode, exc, debug, botVars, emergency_stop, localVars,
                   listenerVars, windows, region, click_delay,
                   last_click_time, current_time, red_boxes, box, click_x, click_y,
                   now, planVars>>

\* click_box: time.sleep(CLICK_HOLD_TIME), then pyautogui.mouseUp()
Click_MouseUp ==
    /\ mode = "click" /\ pc = "c_mouse_up"
    /\ button' = "up"
    /\ pc' = "c_stamp"
    /\ UNCHANGED <<mode, exc, debug, botVars, emergency_stop, localVars,
                   listenerVars, mouse, windows, clickVars, now, planVars>>

\* total_clicks += 1; last_click_time = current_time
Bot_Stamp ==
    /\ mode = "click" /\ pc = "c_stamp"
    /\ last_click_time' = current_time
    /\ pc' = "c_debug"
    /\ UNCHANGED <<mode, exc, debug, botVars, emergency_stop, localVars,
                   listenerVars, deviceVars, region, click_delay,
                   current_time, red_boxes, box, click_x, click_y, clicks, now,
                   planVars>>

\* The debug frame is shown (or the loop sleeps), the FPS figures are updated.
\* The locals of the iteration are dead from here on (each is assigned again
\* before it is read) and are cleared.
Bot_Debug ==
    /\ mode = "click" /\ pc = "c_debug"
    /\ pc' = "c_while"
    /\ current_time' = 0 /\ red_boxes' = << >> /\ box' = None
    /\ click_x' = 0 /\ click_y' = 0
    /\ UNCHANGED <<mode, exc, debug, botVars, emergency_stop, localVars,
                   listenerVars, deviceVars, region, click_delay,
                   last_click_time, clicks, now, planVars>>

\* finally: the statistics are printed, destroyAllWindows with debug; the
\* locals go with the frame of run_bot.
Bot_Finally ==
    /\ mode = "click" /\ pc = "c_finally"
    /\ windows' = IF debug THEN FALSE ELSE windows
    /\ pc' = "c_stopped"
    /\ current_time' = 0 /\ red_boxes' = << >> /\ box' = None
    /\ click_x' = 0 /\ click_y' = 0
    /\ UNCHANGED <<mode, exc, debug, botVars, emergency_stop, localVars,
                   listenerVars, button, mouse, region, click_delay,
                   last_click_time, clicks, now, planVars>>

\* A KeyboardInterrupt reaches the main thread inside try.
Bot_KeyboardInterrupt ==
    /\ mode = "click" /\ pc \in ShooterTry
    /\ exc' = "KeyboardInterrupt"
    /\ pc' = "c_finally"
    /\ UNCHANGED <<mode, debug, botVars, emergency_stop, localVars, listenerVars,
                   deviceVars, clickVars, now, planVars>>

\* on_press of shooter_bot.py: ESC sets the global flag and stops the listener.
OnPress_Shooter ==
    /\ mode = "click" /\ listener
    /\ \E key \in Keys :
         IF key = "esc"
         THEN emergency_stop' = TRUE /\ listener' = FALSE
         ELSE UNCHANGED <<emergency_stop, listener>>
    /\ UNCHANGED <<mode, pc, exc, debug, botVars, localVars, lpc, deviceVars,
                   clickVars, now, planVars>>

\* time.time() moves on.  The clock is read by Bot_Decide alone, so the time
\* that passes during an iteration is taken just before that read.
Tick ==
    /\ mode = "click" /\ now < MaxTime
    /\ pc = "c_decide"
    /\ now' = now + 1
    /\ UNCHANGED <<mode, pc, exc, debug, botVars, emergency_stop, localVars,
                   listenerVars, deviceVars, clickVars, planVars>>

\* ------------------------------------------------- specifications ----
Init == InitSteer \/ InitClick \/ InitPlan

\* The statements of the main thread of a run.
MainStep ==
    \/ Run_StartListener \/ Run_SetRunning \/ Run_WhileRunning \/ Run_WhileEstop
    \/ Run_CaptureNone \/ Run_Perceive
    \/ Move_ToRocket \/ Move_MouseDown \/ Move_SetPressed \/ Move_Drag
    \/ Run_NoDebug \/ Run_DebugUnbound \/ Run_DebugShow \/ Run_Finally
    \/ Bot_While \/ Bot_FindRedBoxes \/ Bot_Decide
    \/ Click_MouseDown \/ Click_MouseUp \/ Bot_Stamp \/ Bot_Debug \/ Bot_Finally

PlanStep == CallCalculateSafeMove \/ CallIsSafe

Environment ==
    \/ Run_KeyboardInterrupt \/ OnPress_Rocket \/ OnPress_RocketRunning
    \/ Run_CaptureRaises
    \/ Bot_CaptureRaises \/ Bot_KeyboardInterrupt \/ OnPress_Shooter
    \/ Tick

Next == MainStep \/ PlanStep \/ Environment

Spec == Init /\ [][Next]_vars


\* The runs alone, with the main thread kept executing: its next statement is
\* eventually run.  Key presses, interrupts, capture errors and the clock are
\* the environment's and carry no fairness.
RunNext == MainStep \/ Environment

FairRunSpec == (InitSteer \/ InitClick) /\ [][RunNext]_vars /\ WF_vars(MainStep)

\* ----------------------------------------------------------- claims ----
Running_ == mode \in {"steer", "click"}
Stopped == pc \in {"stopped", "c_stopped"}

\* C1: steering mode: once run() has fully shut down, the pointer button is
\* released, on every exit path that arrives after move_rocket pressed it.
\* The code breaks this: a KeyboardInterrupt after mouseDown and before
\* self.mouse_pressed = True leaves finally with nothing to release.
C1_ReleasedAfterRun == (mode = "steer" /\ pc = "stopped") => button = "up"

\* C2: click mode: once run_bot has returned, no button hold is outstanding,
\* also when an interrupt arrives between click_box's press and release.
\* The code breaks this: run_bot's finally releases nothing.
C2_NoHoldAfterRunBot == (mode = "click" /\ pc = "c_stopped") => button = "up"

\* C3: click mode: two consecutive dispatches are at least click_delay apart
\* on the loop's clock (the reading each dispatching iteration takes), and an
\* iteration that is about to dispatch has boxes and is not under the
\* cooldown of the previous dispatch: under the cooldown nothing is sent.
C3_ClickCooldown ==
    mode = "click" =>
      /\ Len(clicks) = 2 => clicks[2] - clicks[1] >= click_delay
      /\ pc = "c_mouse_down" =>
           /\ red_boxes # << >>
           /\ clicks # << >> => current_time - clicks[Len(clicks)] >= click_delay

\* Two dispatches exactly click_delay apart, with a cooldown that is not
\* trivial: the iterations in between were held back.
C3_Witness ==
    /\ mode = "click" /\ Len(clicks) = 2 /\ click_delay > 1
    /\ clicks[2] - clicks[1] = click_delay

\* C4: in both modes, once the stop signal is raised (stop key or interrupt)
\* the run eventually is stopped with the button released and the debug
\* windows torn down.  Under FairRunSpec the exit is reached with the windows
\* closed (StopLeadsToExit holds); the button is not always released, because
\* of the slips of C1 and C2.
StopRaised == Running_ /\ (emergency_stop \/ exc = "KeyboardInterrupt")

C4_StopLeadsToShutdown == StopRaised ~> (Stopped /\ button = "up" /\ ~windows)

\* What does hold of a raised stop: the loop exits and the windows are closed.
StopLeadsToExit == StopRaised ~> (Stopped /\ ~windows)

\* C5: once the listener has set the cancellation flag, no step of the main
\* thread begins a new iteration, in either mode.
IterationBegins ==
    \/ pc = "while_estop" /\ pc' = "capture"
    \/ pc = "c_while" /\ pc' = "c_capture"

C5_NoIterationAfterStop == [][emergency_stop => ~IterationBegins]_vars

\* The flag was set and on_press completed before run() executed
\* self.running = True, which then overwrote running: the loop's condition is
\* about to read the flag.
C5_Witness ==
    /\ mode = "steer" /\ pc = "while_estop"
    /\ emergency_stop /\ running /\ lpc = "idle"


\* The planner's contract, stated apart from its loops.
PlanReturned == mode = "plan" /\ pc = "returned" /\ call.fn = "calculate_safe_move"

\* A point is in danger when its distance to a hazard's centre is below 1.5
\* times the larger side of the hazard's bounding box (squares compared).
InDanger(x, y, fireballs) ==
    \E i \in 1..Len(fireballs) :
        LET fb == fireballs[i]
            side == Max(fb.bounds[3], fb.bounds[4])
        IN  4 * Dist2(x, y, fb.center[1], fb.center[2]) < 9 * side * side

OnBoundary(x, y, fireballs) ==
    \E i \in 1..Len(fireballs) :
        LET fb == fireballs[i]
            side == Max(fb.bounds[3], fb.bounds[4])
        IN  4 * Dist2(x, y, fb.center[1], fb.center[2]) = 9 * side * side

\* All 5 points the code samples for an item (t = 0, 1/4, ..., 1) are safe.
SamplesSafe(r, item, fireballs) ==
    \A k \in 0..4 :
        ~InDanger(SampleCoord(r[1], item[1], k), SampleCoord(r[2], item[2], k),
                  fireballs)

Centroid(item) == <<item[1], item[2]>>

\* C6: calculate_safe_move returns a target (a point) exactly when the agent
\* position is known, whatever the collectibles and hazards.
C6_TargetIffPositionKnown ==
    PlanReturned =>
      /\ ret.target = None <=> call.rocket_pos = None
      /\ ret.target # None => Len(ret.target) = 2

\* No collectible, at least one hazard, a known position: a target came back.
C6_Witness ==
    /\ PlanReturned /\ call.rocket_pos # None
    /\ call.items = << >> /\ call.fireballs # << >>
    /\ ret.target # None

\* C7: a collectible with an unsafe point among its 5 sampled points is never
\* the item target: a target from the loop over items is the centroid of a
\* collectible whose 5 sampled points are all safe.
C7_UnsafePathNeverChosen ==
    (PlanReturned /\ ret.from = "item") =>
      /\ \A i \in 1..Len(call.items) :
            ~SamplesSafe(call.rocket_pos, call.items[i], call.fireballs)
               => ret.target # Centroid(call.items[i])
      /\ \E i \in 1..Len(call.items) :
            /\ ret.target = Centroid(call.items[i])
            /\ SamplesSafe(call.rocket_pos, call.items[i], call.fireballs)

\* An item target was returned while another collectible of the call is safe
\* at its end point and unsafe on the way to it.
C7_Witness ==
    /\ PlanReturned /\ ret.from = "item"
    /\ \E i \in 1..Len(call.items) :
          /\ ~SamplesSafe(call.rocket_pos, call.items[i], call.fireballs)
          /\ ~InDanger(call.items[i][1], call.items[i][2], call.fireballs)

\* C8: is_safe is false exactly for the points whose distance to some
\* hazard's centre is strictly below 1.5 times the larger side of its
\* bounding box; at distance equal to the radius the point is safe.
C8_IsSafeIffOutsideAllZones ==
    (mode = "plan" /\ pc = "returned" /\ call.fn = "is_safe") =>
      (ret.safe <=> ~InDanger(call.point[1], call.point[2], call.fireballs))

\* A point exactly on a zone's boundary, inside no zone, was classified safe.
C8_Witness ==
    /\ mode = "plan" /\ pc = "returned" /\ call.fn = "is_safe"
    /\ OnBoundary(call.point[1], call.point[2], call.fireballs)
    /\ ret.safe


\* The orders in which a set of detections can be discovered.
OrdersOf(S) == {q \in SeqsUpTo(S, Cardinality(S)) : Len(q) = Cardinality(S)}

\* (y, x) of a is strictly before (y, x) of b.
KeyBefore(a, b) == a[2] < b[2] \/ (a[2] = b[2] /\ a[1] < b[1])

SameKey(a, b) == a[2] = b[2] /\ a[1] = b[1]

KeysDistinct(d) == \A i, j \in 1..Len(d) : i # j => ~SameKey(d[i], d[j])

\* The step of run_bot that selects a box; red_boxes is in discovery order
\* before it.
Dispatches == mode = "click" /\ pc = "c_decide" /\ pc' = "c_mouse_down"

PicksMinimum ==
    /\ box' \in Range(red_boxes)
    /\ \A b \in Range(red_boxes) : ~KeyBefore(b, box')
    /\ click_x' = box'[1] + box'[3] \div 2
    /\ click_y' = box'[2] + box'[4] \div 2

SameForEveryOrder == \A q \in OrdersOf(Range(red_boxes)) : SortBoxes(q)[1] = box'

\* C9 as stated: the selector picks the box first in ascending (y, x), clicks
\* its centre, and picks the same box for the same set of detections whatever
\* their discovery order.  Two boxes with the same (y, x) and different sizes
\* refute the last part: the sort is stable, the first discovered wins.
C9_SameBoxAnyOrder == [][Dispatches => (PicksMinimum /\ SameForEveryOrder)]_vars

\* C9 amended: the selected box has the least (y, x) of the frame's boxes,
\* among boxes with that (y, x) it is the first discovered, the click point is
\* its centre, and when no two boxes share (y, x) every discovery order of
\* the same set selects it.
C9_Selector ==
    [][Dispatches =>
         /\ PicksMinimum
         /\ \E i \in 1..Len(red_boxes) :
               /\ red_boxes[i] = box'
               /\ \A j \in 1..(i - 1) : ~SameKey(red_boxes[j], box')
         /\ KeysDistinct(red_boxes) => SameForEveryOrder]_vars

\* Scenario 3 of the spec: (10,10,20,20) is selected over (5,50,20,20).
C9_Witness ==
    /\ mode = "click" /\ pc = "c_mouse_down"
    /\ box = <<10, 10, 20, 20>> /\ <<5, 50, 20, 20>> \in Range(red_boxes)
    /\ click_x = 20 /\ click_y = 20

\* C10: with a path-safe collectible, the target is the centroid of the
\* path-safe collectible nearest to the agent, the first discovered among
\* those equally near; with no hazard and one collectible it is that one.
SafeItems ==
    {i \in 1..Len(call.items) :
        SamplesSafe(call.rocket_pos, call.items[i], call.fireballs)}

ItemDist2(i) ==
    Dist2(call.items[i][1], call.items[i][2], call.rocket_pos[1], call.rocket_pos[2])

C10_NearestSafeItem ==
    (PlanReturned /\ call.rocket_pos # None) =>
      /\ SafeItems # {} =>
           /\ ret.from = "item"
           /\ \E i \in SafeItems :
                 /\ ret.target = Centroid(call.items[i])
                 /\ \A j \in SafeItems :
                       /\ ItemDist2(i) <= ItemDist2(j)
                       /\ ItemDist2(i) = ItemDist2(j) => i <= j
      /\ (call.fireballs = << >> /\ Len(call.items) = 1)
            => ret.target = Centroid(call.items[1])

\* Two path-safe collectibles equally near, hazards present: the first is it.
C10_Witness ==
    /\ PlanReturned /\ call.rocket_pos # None
    /\ Len(call.items) = 2 /\ SafeItems = {1, 2} /\ call.fireballs # << >>
    /\ ItemDist2(1) = ItemDist2(2)
    /\ ret.target = Centroid(call.items[1])

\* C11: the last-known position self.rocket_pos is written by no step but a
\* find_rocket whose frame shows the rocket, which stores and returns that
\* detection; a find_rocket whose frame shows none leaves it as it was and
\* returns it; a known position never becomes unknown again.
FindRocketStep == mode = "steer" /\ pc = "capture" /\ pc' \in {"move_rocket", "debug"}

C11_LastKnownPosition ==
    [][/\ rocket_pos' # rocket_pos => (FindRocketStep /\ detected' # None)
       /\ rocket_pos # None => rocket_pos' # None
       /\ FindRocketStep =>
            /\ detected' # None => (rocket_pos' = detected' /\ l_rocket_pos' = detected')
            /\ detected' = None => (rocket_pos' = rocket_pos /\ l_rocket_pos' = rocket_pos)
      ]_vars

\* A frame without the rocket, after one that showed it at (100, 100): the
\* iteration works with the previous position.
C11_Witness ==
    /\ mode = "steer" /\ pc \in {"move_rocket", "debug"}
    /\ detected = None
    /\ rocket_pos = <<100, 100>> /\ l_rocket_pos = <<100, 100>>

\* C12: a capture failure never ends a run: in both modes the iteration whose
\* capture yields no frame detects nothing, touches no pointer and goes back
\* to the loop's condition without an exception.  The code breaks this: a
\* grab that raises is caught nowhere in run() or run_bot.
CaptureFails ==
    /\ pc \in {"capture", "c_capture"} /\ pc' # pc
    /\ exc' # "KeyboardInterrupt"
    /\ (mode = "steer" /\ game_region = None) \/ exc' = "ScreenShotError"

C12_CaptureFailureNotFatal ==
    [][CaptureFails =>
         /\ exc' = "" /\ pc' \in {"while_running", "c_while"}
         /\ UNCHANGED <<rocket_pos, l_rocket_pos, red_boxes, button, mouse>>]_vars

\* What does hold: without a game region capture_game returns None and the
\* steering loop goes on to its next iteration.
NoRegionLoopsOn ==
    [][(CaptureFails /\ exc' = "") =>
         /\ pc' = "while_running"
         /\ UNCHANGED <<rocket_pos, l_rocket_pos, button, mouse>>]_vars

\* C13: a missing detection is never fatal: an iteration of run() to which
\* find_rocket gave no position (with or without debug), or of run_bot with
\* no box, calls neither move_rocket nor click_box, leaves the pointer alone
\* and goes on without an exception (q or ESC in the debug window may still
\* end the loop).  The code breaks this with debug on: "if target:" reads a
\* local that is bound only once a position has been found.
NotFound ==
    \/ mode = "steer" /\ pc = "debug" /\ l_rocket_pos = None
    \/ mode = "click" /\ pc \in {"c_decide", "c_debug"} /\ red_boxes = << >>

GoesOn ==
    /\ exc' = ""
    /\ UNCHANGED <<button, mouse>>
    /\ pc' \in {"while_running", "c_debug", "c_while"} \/ (debug /\ pc' = "finally")

C13_MissingDetectionNotFatal ==
    [][/\ (FindRocketStep /\ l_rocket_pos' = None) => pc' = "debug"
       /\ (NotFound /\ pc' # pc /\ exc' # "KeyboardInterrupt") => GoesOn]_vars

\* What does hold: the same with the debug visualization off.
MissingDetectionWithoutDebug ==
    [][/\ (FindRocketStep /\ l_rocket_pos' = None) => pc' = "debug"
       /\ (NotFound /\ pc' # pc /\ exc' # "KeyboardInterrupt"
             /\ ~(mode = "steer" /\ debug)) => GoesOn]_vars

\* The scanned positions: 50, 70, 90, ... below frame_width - 50.
ScanPositions(frame_width) ==
    {x \in 50..(frame_width - 51) : (x - 50) % 20 = 0}

\* The cumulative danger score at (x, y), in 1/Scale px: the sum over the
\* first n hazards of max(0, 2 * radius - distance), 2 * radius being 3 times
\* the larger side of the hazard's bounding box.
RECURSIVE CumulativeDanger(_, _, _, _)
CumulativeDanger(x, y, fireballs, n) ==
    IF n = 0 THEN 0
    ELSE LET fb == fireballs[n]
             side == Max(fb.bounds[3], fb.bounds[4])
             dist == ISqrt(Dist2(x, y, fb.center[1], fb.center[2]) * Scale * Scale)
         IN  Max(0, 3 * side * Scale - dist) + CumulativeDanger(x, y, fireballs, n - 1)

DangerAt(x) == CumulativeDanger(x, call.rocket_pos[2], call.fireballs, Len(call.fireballs))

NoSafeItem == PlanReturned /\ call.rocket_pos # None /\ SafeItems = {}

\* The target's x is the leftmost of the scanned positions of least danger.
LeftmostLeastDanger ==
    /\ ret.target[1] \in ScanPositions(call.frame_width)
    /\ \A x \in ScanPositions(call.frame_width) :
          /\ DangerAt(ret.target[1]) <= DangerAt(x)
          /\ DangerAt(ret.target[1]) = DangerAt(x) => ret.target[1] <= x

\* C14 as stated: with no path-safe collectible the target is (x, agent_y),
\* x the leftmost scanned position of minimum cumulative danger.  A frame of
\* width 100 or less has no scanned position, and x is then the agent's own.
C14_FallbackScan ==
    NoSafeItem => (ret.target[2] = call.rocket_pos[2] /\ LeftmostLeastDanger)

\* C14 amended: the same when some position is scanned (frame_width > 100);
\* when none is, the target is the agent's current position.
C14_FallbackScanOrStay ==
    NoSafeItem =>
      /\ ret.from = "scan"
      /\ ret.target[2] = call.rocket_pos[2]
      /\ ScanPositions(call.frame_width) # {} => LeftmostLeastDanger
      /\ ScanPositions(call.frame_width) = {} => ret.target = call.rocket_pos

\* Scenario 2 of the spec: the hazard at (125, 100) rejects the collectible
\* at (150, 100); the scan of a frame 300 wide ends at its right extreme.
C14_Witness ==
    /\ NoSafeItem /\ call.frame_width = 300
    /\ call.rocket_pos = <<100, 100>>
    /\ call.items = <<Item(125, 75, 50, 50, 2500)>>
    /\ call.fireballs = <<Fireball(105, 80, 40, 40)>>
    /\ ret.target = <<230, 100>>

\* C15: the steering actuator's protocol.  An iteration that computed a
\* target is at "move_rocket".  NotGripped: the pointer goes to the agent's
\* screen position, then the button is pressed, then the bot is Gripped and
\* the iteration is over, the pointer still on the agent.  Gripped: one move
\* of the held pointer to (target x, the agent's row) and the iteration is
\* over.  The button is pressed only while up and NotGripped, so never twice,
\* and nothing else in a run moves the pointer or presses the button.
Actuates == mode = "steer" /\ pc' # pc /\ pc' # "finally"

OnAgent == <<game_region.left + l_rocket_pos[1], game_region.top + l_rocket_pos[2]>>
OnTarget == <<game_region.left + target[1], game_region.top + l_rocket_pos[2]>>

C15_ActuatorProtocol ==
    [][/\ (Actuates /\ pc = "move_rocket" /\ ~mouse_pressed) =>
            (mouse' = OnAgent /\ pc' = "mouse_down" /\ UNCHANGED <<button, mouse_pressed>>)
       /\ (Actuates /\ pc = "mouse_down") =>
            /\ button = "up" /\ ~mouse_pressed
            /\ button' = "down" /\ mouse' = mouse /\ mouse = OnAgent
            /\ pc' = "set_pressed"
       /\ (Actuates /\ pc = "set_pressed") =>
            (mouse_pressed' /\ pc' = "debug" /\ UNCHANGED <<button, mouse>>)
       /\ (Actuates /\ pc = "move_rocket" /\ mouse_pressed) =>
            /\ mouse' = OnTarget /\ pc' = "debug"
            /\ button = "down" /\ UNCHANGED <<button, mouse_pressed>>
       /\ (mode = "steer" /\ mouse' # mouse) => pc = "move_rocket"
       /\ (mode = "steer" /\ button' = "down" /\ button = "up") => pc = "mouse_down"
       /\ (Actuates /\ pc = "capture" /\ l_rocket_pos' # None) => pc' = "move_rocket"
      ]_vars

\* After the grab on the agent at (100, 100), a later iteration has dragged
\* the held pointer to the collectible's column, on the agent's row.
C15_Witness ==
    /\ mode = "steer" /\ pc = "debug" /\ mouse_pressed /\ button = "down"
    /\ l_rocket_pos = <<100, 100>> /\ target = <<150, 100>>
    /\ mouse = <<160, 120>>

\* C16: the run state of a steering run.  Idle until run() enters its loop,
\* Stopping once a stop is requested (the listener's flag) or the loop has
\* been left, Stopped when finally is done, Running otherwise.
StopRequestedOrExited ==
    mode = "steer" /\ (emergency_stop \/ pc \in {"finally", "stopped"})

RunState(p, estop) ==
    IF p = "stopped" THEN "Stopped"
    ELSE IF estop \/ p = "finally" THEN "Stopping"
    ELSE IF p \in {"idle", "set_running"} THEN "Idle"
    ELSE "Running"

Forward(a, b) ==
    \/ a = b
    \/ a = "Idle"
    \/ a = "Running" /\ b \in {"Stopping", "Stopped"}
    \/ a = "Stopping" /\ b = "Stopped"

NeverResumes ==
    /\ ~IterationBegins
    /\ pc \in {"finally", "stopped"} => pc' \in {"finally", "stopped"}

\* C16: once a stop has been requested or the loop has exited, the running
\* flag is never set to true again and the loop never resumes.  The code
\* breaks the flag part: a stop key pressed after the listener is started and
\* before run() executes self.running = True is followed by that assignment,
\* which undoes on_press's self.running = False.
C16_RunningNeverSetAgain ==
    [][StopRequestedOrExited => (~(running' /\ ~running) /\ NeverResumes)]_vars

\* What does hold: the run state, read from the loop's position and the
\* listener's emergency_stop, only moves forward; after a stop request or the
\* loop's exit no iteration begins and the loop is not re-entered; running is
\* set to true by run()'s start-up alone and is false once run() has shut down.
RunStateForward ==
    [][mode = "steer" =>
         /\ Forward(RunState(pc, emergency_stop), RunState(pc', emergency_stop'))
         /\ StopRequestedOrExited => NeverResumes
         /\ (running' /\ ~running) => pc = "set_running"
         /\ pc' = "stopped" => ~running']_vars

\* C17: every pointer operation that carries coordinates is given the capture
\* region's origin plus the in-frame coordinate: moveTo of the grab goes to
\* (left + agent_x, top + agent_y), moveTo of a drag to (left + target_x,
\* top + agent_y), mouseDown of a click to (left + box centre x, top + box
\* centre y); the pointer is placed by no other step.
PointerOp == pc \in {"move_rocket", "c_mouse_down"} /\ pc' # pc /\ exc' = exc

OnBox == <<region.left + box[1] + box[3] \div 2, region.top + box[2] + box[4] \div 2>>

C17_AbsoluteCoordinates ==
    [][/\ (PointerOp /\ mode = "steer" /\ ~mouse_pressed) => mouse' = OnAgent
       /\ (PointerOp /\ mode = "steer" /\ mouse_pressed) => mouse' = OnTarget
       /\ (PointerOp /\ mode = "click") => mouse' = OnBox
       /\ mouse' # mouse => PointerOp]_vars

\* Scenario 3 of the spec in a region with origin (10, 20): the box
\* (10, 10, 20, 20), centre (20, 20), is pressed at screen point (30, 40).
C17_Witness ==
    /\ mode = "click" /\ pc = "c_mouse_up" /\ button = "down"
    /\ region.left = 10 /\ region.top = 20
    /\ box = <<10, 10, 20, 20>>
    /\ mouse = <<30, 40>>

\* C18: in every state of a RocketBot, from construction through the end of
\* run(), mouse_pressed is true exactly when the bot holds the button down.
\* The code breaks this: finally releases the button and leaves the flag
\* true, and between mouseDown and the flag's assignment the button is down
\* with the flag still false.
C18_FlagMatchesButton == mode = "steer" => (mouse_pressed <=> button = "down")

\* The run is over, the button released, the flag still true.
FlagStaleAfterShutdown ==
    mode = "steer" /\ pc = "stopped" /\ mouse_pressed /\ button = "up"

=============================================================================
